---- MODULE Spec2Model ----
(***************************************************************************)
(* KQOAuthRequest / KQOAuthRequestPrivate (src/src/kqoauthrequest.cpp):    *)
(* collection, normalisation, percent-encoding and signing of the OAuth    *)
(* 1.0 request parameters of one request instance.                         *)
(*                                                                         *)
(* A QString / QByteArray is a sequence of character codes (all text here  *)
(* is ASCII, so UTF-16 code units, UTF-8 bytes and ASCII codes coincide).  *)
(* Each string constant is followed by the text it spells.                 *)
(***************************************************************************)
EXTENDS Integers, Sequences, FiniteSets

\* ------------------------------------------------------------- bounds
\* calls of the public interface on one instance, clock ticks included
MaxSteps == 4

\* ------------------------------------------------------------- strings
EmptyString == <<>>

\* QString::operator< : lexicographic on the code units, from position i on
RECURSIVE StrLessFrom(_, _, _)
StrLessFrom(x, y, i) ==
    IF i > Len(y) THEN FALSE
    ELSE IF i > Len(x) THEN TRUE
    ELSE IF x[i] = y[i] THEN StrLessFrom(x, y, i + 1)
    ELSE x[i] < y[i]

StrLess(x, y) == StrLessFrom(x, y, 1)

\* concatenation of the strings ss[lo..hi], in order
RECURSIVE Join(_, _, _)
Join(ss, lo, hi) ==
    IF lo > hi THEN <<>>
    ELSE IF lo = hi THEN ss[lo]
    ELSE LET mid == (lo + hi) \div 2
         IN  Join(ss, lo, mid) \o Join(ss, mid + 1, hi)

\* occurrences of the token tok in s
Count(tok, s) ==
    Cardinality({i \in 1..(Len(s) - Len(tok) + 1) :
                    \A j \in 1..Len(tok) : s[i + j - 1] = tok[j]})

\* QString::number(n), n >= 0
RECURSIVE QStringNumber(_)
QStringNumber(n) ==
    IF n < 10 THEN <<48 + n>>
    ELSE QStringNumber(n \div 10) \o <<48 + (n % 10)>>


\* ------------------------------------------------------------- protocol keys and values
\* "oauth_callback"
OAUTH_KEY_CALLBACK ==
    <<111, 97, 117, 116, 104, 95, 99, 97, 108, 108, 98, 97, 99, 107>>
\* "oauth_signature_method"
OAUTH_KEY_SIGNATURE_METHOD ==
    <<111, 97, 117, 116, 104, 95, 115, 105, 103, 110, 97, 116, 117, 114, 101, 95, 109, 101, 116, 104, 111, 100>>
\* "oauth_consumer_key"
OAUTH_KEY_CONSUMER_KEY ==
    <<111, 97, 117, 116, 104, 95, 99, 111, 110, 115, 117, 109, 101, 114, 95, 107, 101, 121>>
\* "oauth_version"
OAUTH_KEY_VERSION ==
    <<111, 97, 117, 116, 104, 95, 118, 101, 114, 115, 105, 111, 110>>
\* "oauth_timestamp"
OAUTH_KEY_TIMESTAMP ==
    <<111, 97, 117, 116, 104, 95, 116, 105, 109, 101, 115, 116, 97, 109, 112>>
\* "oauth_nonce"
OAUTH_KEY_NONCE ==
    <<111, 97, 117, 116, 104, 95, 110, 111, 110, 99, 101>>
\* "oauth_signature"
OAUTH_KEY_SIGNATURE ==
    <<111, 97, 117, 116, 104, 95, 115, 105, 103, 110, 97, 116, 117, 114, 101>>

\* the literals of the source
\* "PLAINTEXT"
StrPLAINTEXT ==
    <<80, 76, 65, 73, 78, 84, 69, 88, 84>>
\* "HMAC_SHA1"
StrHMAC_SHA1 ==
    <<72, 77, 65, 67, 95, 83, 72, 65, 49>>
\* "RSA_SHA1"
StrRSA_SHA1 ==
    <<82, 83, 65, 95, 83, 72, 65, 49>>
\* "GET"
StrGET ==
    <<71, 69, 84>>
\* "POST"
StrPOST ==
    <<80, 79, 83, 84>>
\* "1.0"
StrVersion ==
    <<49, 46, 48>>
\* "&"
StrAmp ==
    <<38>>
\* "="
StrEq ==
    <<61>>
\* "%3D"
StrEncEq ==
    <<37, 51, 68>>
\* "%26"
StrEncAmp ==
    <<37, 50, 54>>

\* ------------------------------------------------------------- inputs
\* QUrl: the text it was built from and whether it parsed
QUrlEmpty == [valid |-> FALSE, str |-> EmptyString]
\* "http://h/r&s=t?x=1&y"
EndpointUrl ==
    [valid |-> TRUE, str |-> <<104, 116, 116, 112, 58, 47, 47, 104, 47, 114, 38, 115, 61, 116, 63, 120, 61, 49, 38, 121>>]
\* "http://c/b?z=2"
CallbackUrl ==
    [valid |-> TRUE, str |-> <<104, 116, 116, 112, 58, 47, 47, 99, 47, 98, 63, 122, 61, 50>>]
EndpointInputs == {QUrlEmpty, EndpointUrl}
CallbackInputs == {QUrlEmpty, CallbackUrl}
\* "", "c&k"
ConsumerKeyInputs ==
    {EmptyString, <<99, 38, 107>>}
\* "cs"
ConsumerSecretInputs ==
    {<<99, 115>>}
\* what the caller inserts into the map handed to setAdditionalParameters(), in
\* the order of the inserts: a -> "1&2"; "b=" -> "z" and
\* oauth_nonce -> "0", in both orders
AdditionalInputs ==
    {
      << <<<<97>>, <<49, 38, 50>>>> >>,
      << <<<<98, 61>>, <<122>>>>,
         <<OAUTH_KEY_NONCE, <<48>>>> >>,
      << <<OAUTH_KEY_NONCE, <<48>>>>,
         <<<<98, 61>>, <<122>>>> >> }

\* enum KQOAuthRequest::RequestType, and a value outside it
TemporaryCredentials == 0
ResourceOwnerAuth == 1
AccessToken == 2
RequestTypeValues == {TemporaryCredentials, ResourceOwnerAuth, AccessToken}
RequestTypeInputs == RequestTypeValues \cup {-1}
\* enum RequestSignatureMethod and enum RequestHttpMethod, by enumerator name;
\* "INVALID" is any value outside the enumeration
SignatureMethodValues == {"PLAINTEXT", "HMAC_SHA1", "RSA_SHA1"}
SignatureMethodInputs == SignatureMethodValues \cup {"INVALID"}
HttpMethodValues == {"GET", "POST"}
HttpMethodInputs == HttpMethodValues \cup {"INVALID"}

\* the qWarning() texts
WarnEndpoint == "Endpoint URL is not valid. Ignoring. This request might not work."
WarnRequestType == "Invalid request type. Ignoring. This request might not work."
WarnSignatureMethod == "Invalid signature method set."
WarnHttpMethod == "Invalid HTTP method set."
WarnNotValid == "Request is not valid! I will still sign it, but it will probably not work."

\* ------------------------------------------------------------- Qt
\* QUrl::isValid(), QUrl::isEmpty(), QUrl::toString()
QUrlIsValid(u) == u.valid
QUrlIsEmpty(u) == u.str = EmptyString
QUrlToString(u) == u.str
\* QUrl::toString(QUrl::RemoveQuery): the text up to the first '?'
QUrlToStringRemoveQuery(u) ==
    LET marks == {i \in 1..Len(u.str) : u.str[i] = 63}
    IN  IF marks = {} THEN u.str
        ELSE SubSeq(u.str, 1, (CHOOSE i \in marks : \A j \in marks : i <= j) - 1)

\* ALPHA / DIGIT / "-" / "." / "_" / "~"
IsUnreserved(c) ==
    \/ c \in 48..57
    \/ c \in 65..90
    \/ c \in 97..122
    \/ c \in {45, 46, 95, 126}

\* one hexadecimal digit, upper case
HexDigit(n) == IF n < 10 THEN 48 + n ELSE 55 + n

\* QUrl::toPercentEncoding(s): unreserved characters as they are, every other
\* byte as '%' and two hexadecimal digits
toPercentEncoding(s) ==
    Join([i \in 1..Len(s) |->
            IF IsUnreserved(s[i]) THEN <<s[i]>>
            ELSE <<37, HexDigit(s[i] \div 16), HexDigit(s[i] % 16)>>],
         1, Len(s))

\* QCryptographicHash::hash(s, Md5).toHex() on the timestamps the clock can show
Md5Hex(s) ==
    CASE
         s = <<49, 51, 48, 48, 48, 48, 48, 48, 48, 48>> ->
           <<98, 53, 100, 52, 48, 55, 100, 53, 49, 99, 55, 50, 53, 52, 97, 53, 102, 51, 50, 100, 54, 54, 51, 98, 100, 54, 97, 99, 98, 98, 52, 51>>
      [] s = <<49, 51, 48, 48, 48, 48, 48, 48, 48, 49>> ->
           <<98, 56, 50, 56, 53, 98, 97, 48, 54, 102, 49, 48, 55, 57, 51, 48, 97, 50, 56, 100, 100, 55, 48, 54, 98, 55, 54, 99, 49, 102, 56, 100>>
      [] s = <<49, 51, 48, 48, 48, 48, 48, 48, 48, 50>> ->
           <<57, 56, 100, 99, 51, 99, 49, 97, 99, 49, 100, 100, 49, 98, 102, 101, 57, 98, 57, 101, 50, 98, 101, 97, 52, 99, 98, 55, 99, 52, 97, 99>>
      [] s = <<49, 51, 48, 48, 48, 48, 48, 48, 48, 51>> ->
           <<98, 98, 57, 49, 100, 97, 56, 49, 49, 55, 53, 102, 55, 101, 98, 97, 48, 100, 101, 50, 54, 56, 55, 55, 54, 100, 102, 100, 53, 50, 102, 102>>
      [] s = <<49, 51, 48, 48, 48, 48, 48, 48, 48, 52>> ->
           <<102, 53, 49, 55, 56, 97, 57, 53, 57, 56, 50, 102, 48, 51, 53, 49, 49, 48, 100, 97, 56, 50, 48, 100, 48, 97, 99, 98, 49, 50, 57, 48>>
      [] s = <<49, 51, 48, 48, 48, 48, 48, 48, 48, 53>> ->
           <<49, 51, 52, 54, 101, 57, 54, 52, 56, 55, 56, 56, 53, 53, 53, 52, 50, 53, 56, 101, 53, 97, 57, 49, 98, 100, 99, 97, 55, 102, 100, 57>>
      [] OTHER -> EmptyString

\* QMap::insert of the pairs of ins, in order: the map as the list of its
\* (key, value) pairs in ascending key order, one value per key
RECURSIVE QMapOf(_)
QMapOf(ins) ==
    IF ins = <<>> THEN <<>>
    ELSE LET rest == QMapOf(SubSeq(ins, 1, Len(ins) - 1))
             e == ins[Len(ins)]
             before == {i \in 1..Len(rest) : StrLess(rest[i][1], e[1])}
             after == {i \in 1..Len(rest) : StrLess(e[1], rest[i][1])}
         IN  [i \in 1..(Cardinality(before) + 1 + Cardinality(after)) |->
                IF i <= Cardinality(before) THEN rest[i]
                ELSE IF i = Cardinality(before) + 1 THEN e
                ELSE rest[Len(rest) - Cardinality(before) - Cardinality(after) - 1 + i]]

\* KQOAuthUtils::hmac_sta1(message, key): the digest is abstracted to a
\* checksum of key and message, written as HMAC-SHA1 signatures are: in the
\* base64 alphabet, ending in the '=' padding
RECURSIVE ByteSum(_, _, _)
ByteSum(s, lo, hi) ==
    IF lo > hi THEN 0
    ELSE IF lo = hi THEN s[lo]
    ELSE LET mid == (lo + hi) \div 2
         IN  ByteSum(s, lo, mid) + ByteSum(s, mid + 1, hi)

Base64Char(n) ==
    IF n < 26 THEN 65 + n
    ELSE IF n < 52 THEN 71 + n
    ELSE IF n < 62 THEN n - 4
    ELSE IF n = 62 THEN 43 ELSE 47

hmac_sta1(message, key) ==
    LET n == ByteSum(message, 1, Len(message)) + 31 * ByteSum(key, 1, Len(key))
    IN  <<Base64Char((n \div 4096) % 64), Base64Char((n \div 64) % 64),
          Base64Char(n % 64), 61>>

\* ------------------------------------------------------------- state
VARIABLES
    requestType,            \* KQOAuthRequest::requestType
    oauthRequestEndpoint,   \* the fields of KQOAuthRequestPrivate
    oauthCallbackUrl,
    oauthConsumerKey,
    oauthConsumerSecretKey,
    oauthSignatureMethod,
    oauthHttpMethod,
    oauthVersion,
    oauthTimestamp_,
    oauthNonce_,
    additionalParams,
    requestParameters,
    clock,                  \* seconds the wall clock has advanced
    warnings,               \* what the last call logged with qWarning()
    history,                \* what each requestParameters() call collected
    lastSign,               \* what the last requestParameters() call computed
    steps                   \* calls so far, clock ticks included

vars ==
    <<requestType, oauthRequestEndpoint, oauthCallbackUrl, oauthConsumerKey,
      oauthConsumerSecretKey, oauthSignatureMethod, oauthHttpMethod, oauthVersion,
      oauthTimestamp_, oauthNonce_, additionalParams, requestParameters, clock,
      warnings, history, lastSign, steps>>

Range(s) == {s[i] : i \in 1..Len(s)}

\* lastSign before the first requestParameters()
NoSign == [called |-> FALSE, step |-> 0]

\* no setter of this file assigns it
oauthTokenSecret == EmptyString

\* QDateTime::currentDateTime().toTime_t()
currentTime == 1300000000 + clock

\* ------------------------------------------------------------- KQOAuthRequestPrivate
\* oauthTimestamp() that never returns the stored timestamp
oauthTimestampUncached(ts) ==
    QStringNumber(currentTime)

\* oauthTimestamp(), reading the field ts
oauthTimestamp(ts) ==
    IF ts # EmptyString THEN ts
    ELSE QStringNumber(currentTime)

\* oauthNonce(), reading the fields ts and nonce
oauthNonce(ts, nonce) ==
    IF nonce # EmptyString THEN nonce
    ELSE LET nonceTimestamp == IF ts = EmptyString THEN oauthTimestamp(ts) ELSE ts
         IN  Md5Hex(nonceTimestamp)

\* insertAdditionalParams(requestParams): keys() and values() of the map, pairwise
insertAdditionalParams(requestParams) ==
    requestParams \o [i \in 1..Len(additionalParams) |->
                        <<additionalParams[i][1], additionalParams[i][2]>>]

\* the protocol parameters of a TemporaryCredentials request, in the order of
\* the appends
protocolParameters ==
    << <<OAUTH_KEY_CALLBACK, toPercentEncoding(QUrlToString(oauthCallbackUrl))>>,
       <<OAUTH_KEY_SIGNATURE_METHOD, oauthSignatureMethod>>,
       <<OAUTH_KEY_CONSUMER_KEY, oauthConsumerKey>>,
       <<OAUTH_KEY_VERSION, oauthVersion>>,
       <<OAUTH_KEY_TIMESTAMP, oauthTimestamp(oauthTimestamp_)>>,
       <<OAUTH_KEY_NONCE, oauthNonce(oauthTimestamp_, oauthNonce_)>> >>

\* prepareRequest() whose switch collects the parameters for every request type
prepareRequestEveryType ==
    [ok |-> TRUE,
     params |-> insertAdditionalParams(requestParameters \o protocolParameters)]

\* prepareRequest() that starts from an empty list
prepareRequestCleared ==
    [ok |-> TRUE,
     params |->
        IF requestType = TemporaryCredentials
        THEN insertAdditionalParams(protocolParameters)
        ELSE <<>>]

\* prepareRequest(): the list it leaves in requestParameters, and what it returns
prepareRequest ==
    [ok |-> TRUE,
     params |->
        IF requestType = TemporaryCredentials
        THEN insertAdditionalParams(requestParameters \o protocolParameters)
        ELSE requestParameters]

\* normalizedParameterSort() that compares the keys only
normalizedParameterSortKeyOnly(left, right) ==
    StrLess(left[1], right[1])

\* normalizedParameterSort(left, right)
normalizedParameterSort(left, right) ==
    IF left[1] = right[1] THEN StrLess(left[2], right[2])
    ELSE StrLess(left[1], right[1])

\* qSort(begin, end, normalizedParameterSort). Pairs that the comparator does
\* not order are equal pairs, so every sorting algorithm gives this list.
RECURSIVE qSort(_)
qSort(list) ==
    IF list = <<>> THEN <<>>
    ELSE LET rest == qSort(SubSeq(list, 1, Len(list) - 1))
             e == list[Len(list)]
             later == {i \in 1..Len(rest) : normalizedParameterSort(e, rest[i])}
             at == IF later = {} THEN Len(rest) + 1
                   ELSE CHOOSE i \in later : \A j \in later : i <= j
         IN  SubSeq(rest, 1, at - 1) \o <<e>> \o SubSeq(rest, at, Len(rest))

\* encodedParamaterList() that joins the pairs with a raw '&'
encodedParamaterListRawJoin(parameters) ==
    Join([i \in 1..Len(parameters) |->
            (IF i = 1 THEN EmptyString ELSE StrAmp)
            \o toPercentEncoding(parameters[i][1])
            \o StrEncEq
            \o toPercentEncoding(parameters[i][2])],
         1, Len(parameters))

\* encodedParamaterList(parameters)
encodedParamaterList(parameters) ==
    Join([i \in 1..Len(parameters) |->
            (IF i = 1 THEN EmptyString ELSE StrEncAmp)
            \o toPercentEncoding(parameters[i][1])
            \o StrEncEq
            \o toPercentEncoding(parameters[i][2])],
         1, Len(parameters))

\* A value bound by \E or by a set constructor is computed once, wherever it
\* is used; the operators below bind their intermediate results that way.
The(S) == CHOOSE x \in S : TRUE

\* requestBaseString(): the list it leaves in requestParameters (prepared, and
\* sorted for TemporaryCredentials) and the bytes it returns
requestBaseString ==
    The({[params |-> params,
          bytes |-> oauthHttpMethod \o StrAmp
                    \o toPercentEncoding(QUrlToStringRemoveQuery(oauthRequestEndpoint))
                    \o StrAmp
                    \o encodedParamaterList(params)] :
         params \in {IF requestType = TemporaryCredentials
                     THEN qSort(prepareRequest.params)
                     ELSE prepareRequest.params}})

\* oauthSignature(): the signature it returns, with what requestBaseString() did
oauthSignature ==
    The({[params |-> baseString.params,
          baseString |-> baseString.bytes,
          signature |-> hmac_sta1(baseString.bytes,
                                  oauthConsumerSecretKey \o StrAmp \o oauthTokenSecret)] :
         baseString \in {requestBaseString}})

\* signRequest() that sorts once more after the append
signRequestSortedLast ==
    The({[encoded |-> signed.params,
          baseString |-> signed.baseString,
          signature |-> signed.signature,
          params |-> qSort(signed.params
                           \o << <<OAUTH_KEY_SIGNATURE, signed.signature>> >>)] :
         signed \in {oauthSignature}})

\* signRequest(): the list it leaves in requestParameters. The signature, and
\* with it the base string, is computed before the append.
signRequest ==
    The({[encoded |-> signed.params,
          baseString |-> signed.baseString,
          signature |-> signed.signature,
          params |-> signed.params \o << <<OAUTH_KEY_SIGNATURE, signed.signature>> >>] :
         signed \in {oauthSignature}})

\* validateRequest() without the test of the callback URL
validateRequestNoCallback ==
    IF requestType = TemporaryCredentials
    THEN IF \/ QUrlIsEmpty(oauthRequestEndpoint)
            \/ oauthConsumerKey = EmptyString
            \/ oauthNonce_ = EmptyString
            \/ oauthSignatureMethod = EmptyString
            \/ oauthTimestamp_ = EmptyString
            \/ oauthVersion = EmptyString
         THEN FALSE
         ELSE TRUE
    ELSE FALSE

\* validateRequest()
validateRequest ==
    IF requestType = TemporaryCredentials
    THEN IF \/ QUrlIsEmpty(oauthRequestEndpoint)
            \/ QUrlIsEmpty(oauthCallbackUrl)
            \/ oauthConsumerKey = EmptyString
            \/ oauthNonce_ = EmptyString
            \/ oauthSignatureMethod = EmptyString
            \/ oauthTimestamp_ = EmptyString
            \/ oauthVersion = EmptyString
         THEN FALSE
         ELSE TRUE
    ELSE FALSE

\* ------------------------------------------------------------- KQOAuthRequest
\* the switch of setSignatureMethod(requestMethod): the string it stores and
\* what it logs
setSignatureMethodSwitch(requestMethod) ==
    CASE requestMethod = "PLAINTEXT" -> [str |-> StrPLAINTEXT, log |-> <<>>]
      [] requestMethod = "HMAC_SHA1" -> [str |-> StrHMAC_SHA1, log |-> <<>>]
      [] requestMethod = "RSA_SHA1" -> [str |-> StrRSA_SHA1, log |-> <<>>]
      [] OTHER -> [str |-> EmptyString, log |-> <<WarnSignatureMethod>>]

\* the switch of setHttpMethod(httpMethod): case POST has no break and runs on
\* into default
setHttpMethodSwitch(httpMethod) ==
    CASE httpMethod = "GET" -> [str |-> StrGET, log |-> <<>>]
      [] httpMethod = "POST" -> [str |-> StrPOST, log |-> <<WarnHttpMethod>>]
      [] OTHER -> [str |-> EmptyString, log |-> <<WarnHttpMethod>>]

\* the range check of initRequest(rtype, ...)
initRequestTypeLog(rtype) ==
    IF rtype < 0 \/ rtype >= AccessToken THEN <<WarnRequestType>> ELSE <<>>

\* KQOAuthRequest(parent): the constructor sets the defaults through the
\* setters; requestType is not initialised
Init ==
    /\ requestType \in RequestTypeInputs
    /\ oauthRequestEndpoint = QUrlEmpty
    /\ oauthCallbackUrl = QUrlEmpty
    /\ oauthConsumerKey = EmptyString
    /\ oauthConsumerSecretKey = EmptyString
    /\ oauthSignatureMethod = setSignatureMethodSwitch("HMAC_SHA1").str
    /\ oauthHttpMethod = setHttpMethodSwitch("POST").str
    /\ oauthVersion = StrVersion
    /\ oauthTimestamp_ = EmptyString
    /\ oauthNonce_ = EmptyString
    /\ additionalParams = <<>>
    /\ requestParameters = <<>>
    /\ clock = 0
    /\ warnings = setSignatureMethodSwitch("HMAC_SHA1").log
                  \o setHttpMethodSwitch("POST").log
    /\ history = <<>>
    /\ lastSign = NoSign
    /\ steps = 0

\* the calls are counted
CanConfigure == steps < MaxSteps
Configured == steps' = steps + 1

\* initRequest(rtype, requestEndpoint)
InitRequest(rtype, requestEndpoint) ==
    /\ CanConfigure
    /\ Configured
    /\ IF ~QUrlIsValid(requestEndpoint)
       THEN /\ warnings' = <<WarnEndpoint>>
            /\ UNCHANGED <<requestType, oauthRequestEndpoint, oauthTimestamp_, oauthNonce_>>
       ELSE /\ warnings' = initRequestTypeLog(rtype)
            /\ requestType' = rtype
            /\ oauthRequestEndpoint' = requestEndpoint
            /\ oauthTimestamp_' = oauthTimestamp(oauthTimestamp_)
            /\ oauthNonce_' = oauthNonce(oauthTimestamp_', oauthNonce_)
    /\ UNCHANGED <<oauthCallbackUrl, oauthConsumerKey, oauthConsumerSecretKey,
                   oauthSignatureMethod, oauthHttpMethod, oauthVersion,
                   additionalParams, requestParameters, clock, history, lastSign>>

\* setConsumerKey(consumerKey)
SetConsumerKey(consumerKey) ==
    /\ CanConfigure
    /\ Configured
    /\ oauthConsumerKey' = consumerKey
    /\ warnings' = <<>>
    /\ UNCHANGED <<requestType, oauthRequestEndpoint, oauthCallbackUrl,
                   oauthConsumerSecretKey, oauthSignatureMethod, oauthHttpMethod,
                   oauthVersion, oauthTimestamp_, oauthNonce_, additionalParams,
                   requestParameters, clock, history, lastSign>>

\* setConsumerSecretKey(consumerSecretKey)
SetConsumerSecretKey(consumerSecretKey) ==
    /\ CanConfigure
    /\ Configured
    /\ oauthConsumerSecretKey' = consumerSecretKey
    /\ warnings' = <<>>
    /\ UNCHANGED <<requestType, oauthRequestEndpoint, oauthCallbackUrl,
                   oauthConsumerKey, oauthSignatureMethod, oauthHttpMethod,
                   oauthVersion, oauthTimestamp_, oauthNonce_, additionalParams,
                   requestParameters, clock, history, lastSign>>

\* setCallbackUrl(callbackUrl)
SetCallbackUrl(callbackUrl) ==
    /\ CanConfigure
    /\ Configured
    /\ oauthCallbackUrl' = callbackUrl
    /\ warnings' = <<>>
    /\ UNCHANGED <<requestType, oauthRequestEndpoint, oauthConsumerKey,
                   oauthConsumerSecretKey, oauthSignatureMethod, oauthHttpMethod,
                   oauthVersion, oauthTimestamp_, oauthNonce_, additionalParams,
                   requestParameters, clock, history, lastSign>>

\* setSignatureMethod(requestMethod)
SetSignatureMethod(requestMethod) ==
    /\ CanConfigure
    /\ Configured
    /\ oauthSignatureMethod' = setSignatureMethodSwitch(requestMethod).str
    /\ warnings' = setSignatureMethodSwitch(requestMethod).log
    /\ UNCHANGED <<requestType, oauthRequestEndpoint, oauthCallbackUrl,
                   oauthConsumerKey, oauthConsumerSecretKey, oauthHttpMethod,
                   oauthVersion, oauthTimestamp_, oauthNonce_, additionalParams,
                   requestParameters, clock, history, lastSign>>

\* setHttpMethod(httpMethod)
SetHttpMethod(httpMethod) ==
    /\ CanConfigure
    /\ Configured
    /\ oauthHttpMethod' = setHttpMethodSwitch(httpMethod).str
    /\ warnings' = setHttpMethodSwitch(httpMethod).log
    /\ UNCHANGED <<requestType, oauthRequestEndpoint, oauthCallbackUrl,
                   oauthConsumerKey, oauthConsumerSecretKey, oauthSignatureMethod,
                   oauthVersion, oauthTimestamp_, oauthNonce_, additionalParams,
                   requestParameters, clock, history, lastSign>>

\* setAdditionalParameters(additionalParams), the map built from the inserts ins
SetAdditionalParameters(ins) ==
    /\ CanConfigure
    /\ Configured
    /\ additionalParams' = QMapOf(ins)
    /\ warnings' = <<>>
    /\ UNCHANGED <<requestType, oauthRequestEndpoint, oauthCallbackUrl,
                   oauthConsumerKey, oauthConsumerSecretKey, oauthSignatureMethod,
                   oauthHttpMethod, oauthVersion, oauthTimestamp_, oauthNonce_,
                   requestParameters, clock, history, lastSign>>

\* the list requestParameters() returns: "key=value" of every pair of
\* requestParameters
requestParamList ==
    [i \in 1..Len(requestParameters) |->
        requestParameters[i][1] \o StrEq \o requestParameters[i][2]]

\* what requestParameters() logs
requestParametersLog ==
    IF validateRequest THEN <<WarnNotValid>> ELSE <<>>

\* requestParameters(): history keeps what each call collected, lastSign what
\* the last call read, computed and returned
RequestParameters ==
    /\ CanConfigure
    /\ Configured
    /\ warnings' = requestParametersLog
    /\ \E signed \in {signRequest}, prepared \in {prepareRequest},
          first \in {Len(requestParameters)} :
           /\ requestParameters' = signed.params
           /\ lastSign' =
                [called |-> TRUE,
                 step |-> steps',
                 valid |-> validateRequest,
                 logged |-> requestParametersLog,
                 requestType |-> requestType,
                 fields |-> <<oauthRequestEndpoint.str, oauthCallbackUrl.str,
                              oauthConsumerKey, oauthNonce_, oauthSignatureMethod,
                              oauthTimestamp_, oauthVersion>>,
                 httpMethod |-> oauthHttpMethod,
                 endpoint |-> oauthRequestEndpoint,
                 secret |-> oauthConsumerSecretKey,
                 before |-> first,
                 prepareOk |-> prepared.ok,
                 prepared |-> prepared.params,
                 encoded |-> signed.encoded,
                 baseString |-> signed.baseString,
                 signature |-> signed.signature]
           /\ history' = Append(history,
                [requestType |-> requestType,
                 additional |-> Len(additionalParams),
                 cached |-> oauthTimestamp_ # EmptyString,
                 at |-> clock,
                 timestamp |-> IF Len(prepared.params) >= first + 6
                               THEN prepared.params[first + 5]
                               ELSE <<>>,
                 nonce |-> IF Len(prepared.params) >= first + 6
                           THEN prepared.params[first + 6]
                           ELSE <<>>])
    /\ UNCHANGED <<requestType, oauthRequestEndpoint, oauthCallbackUrl,
                   oauthConsumerKey, oauthConsumerSecretKey, oauthSignatureMethod,
                   oauthHttpMethod, oauthVersion, oauthTimestamp_, oauthNonce_,
                   additionalParams, clock>>

\* the wall clock advances by a second
Tick ==
    /\ CanConfigure
    /\ Configured
    /\ clock' = clock + 1
    /\ UNCHANGED <<requestType, oauthRequestEndpoint, oauthCallbackUrl,
                   oauthConsumerKey, oauthConsumerSecretKey, oauthSignatureMethod,
                   oauthHttpMethod, oauthVersion, oauthTimestamp_, oauthNonce_,
                   additionalParams, requestParameters, warnings,
                   history, lastSign>>

Next ==
    \/ \E rtype \in RequestTypeInputs, ep \in EndpointInputs : InitRequest(rtype, ep)
    \/ \E k \in ConsumerKeyInputs : SetConsumerKey(k)
    \/ \E s \in ConsumerSecretInputs : SetConsumerSecretKey(s)
    \/ \E u \in CallbackInputs : SetCallbackUrl(u)
    \/ \E m \in SignatureMethodInputs : SetSignatureMethod(m)
    \/ \E h \in HttpMethodInputs : SetHttpMethod(h)
    \/ \E ins \in AdditionalInputs : SetAdditionalParameters(ins)
    \/ RequestParameters
    \/ Tick

Spec == Init /\ [][Next]_vars

\* ------------------------------------------------------------- properties
\* (key, value) pairs in nondecreasing order: by key, equal keys by value
PairLeq(p, q) ==
    \/ StrLess(p[1], q[1])
    \/ p[1] = q[1] /\ (p[2] = q[2] \/ StrLess(p[2], q[2]))

Nondecreasing(list) ==
    \A i \in 1..(Len(list) - 1) : PairLeq(list[i], list[i + 1])

Occurrences(p, list) == Cardinality({i \in 1..Len(list) : list[i] = p})

SameBag(l1, l2) ==
    /\ Len(l1) = Len(l2)
    /\ \A p \in Range(l1) : Occurrences(p, l1) = Occurrences(p, l2)

SignatureEntries(list) ==
    Cardinality({i \in 1..Len(list) : list[i][1] = OAUTH_KEY_SIGNATURE})

Reverse(list) == [i \in 1..Len(list) |-> list[Len(list) + 1 - i]]

Rotate(list) ==
    IF list = <<>> THEN list ELSE SubSeq(list, 2, Len(list)) \o <<list[1]>>

\* requestParameters() has just returned
Signed == lastSign.called /\ lastSign.step = steps

\* C1: when requestBaseString() encodes the parameter list, on the first call
\* of requestParameters() and on every later one, the list holds no
\* oauth_signature entry.
C1_NoSignatureInBaseString ==
    Signed => SignatureEntries(lastSign.encoded) = 0

\* C2: after a requestParameters() call on a TemporaryCredentials request the
\* returned list is every collected parameter in nondecreasing (key, value)
\* order, followed by oauth_signature=<the signature of this call> as the
\* final entry.
C2_SortedThenSignature ==
    (Signed /\ lastSign.requestType = TemporaryCredentials) =>
        LET r == requestParamList
            n == Len(r)
            sorted == SubSeq(requestParameters, 1, n - 1)
        IN  /\ n = Len(lastSign.prepared) + 1
            /\ SameBag(sorted, lastSign.prepared)
            /\ Nondecreasing(sorted)
            /\ \A i \in 1..(n - 1) : r[i] = sorted[i][1] \o StrEq \o sorted[i][2]
            /\ r[n] = OAUTH_KEY_SIGNATURE \o StrEq
                      \o hmac_sta1(lastSign.baseString,
                                   lastSign.secret \o StrAmp \o oauthTokenSecret)

\* a second call on a TemporaryCredentials request, with a reconfiguration in
\* between or not: the earlier signature is among the sorted parameters
C2_Witness ==
    /\ Signed
    /\ lastSign.requestType = TemporaryCredentials
    /\ Len(history) >= 2
    /\ SignatureEntries(lastSign.prepared) >= 1
    /\ Len(requestParamList) >= 14

\* C3 as claimed: every collection of one instance emits the timestamp and the
\* nonce of its first collection.
C3_SameTimestampAndNonceAlways ==
    \A i, j \in DOMAIN history :
        (/\ history[i].requestType = TemporaryCredentials
         /\ history[j].requestType = TemporaryCredentials) =>
            /\ history[i].timestamp = history[j].timestamp
            /\ history[i].nonce = history[j].nonce

\* C3 as amended: a collection made once initRequest() has stored the
\* timestamp and the nonce emits the stored values, whatever the clock shows.
C3_CachedTimestampAndNonce ==
    \A i \in DOMAIN history :
        (history[i].requestType = TemporaryCredentials /\ history[i].cached) =>
            /\ history[i].timestamp = <<OAUTH_KEY_TIMESTAMP, oauthTimestamp_>>
            /\ history[i].nonce = <<OAUTH_KEY_NONCE, oauthNonce_>>
            /\ oauthTimestamp_ # EmptyString
            /\ oauthNonce_ = Md5Hex(oauthTimestamp_)

\* two collections after initRequest(), the clock having advanced in between
C3_Witness ==
    \E i, j \in DOMAIN history :
        /\ i < j
        /\ history[i].requestType = TemporaryCredentials
        /\ history[j].requestType = TemporaryCredentials
        /\ history[i].cached
        /\ history[i].at < history[j].at

\* the seven required fields are all non-empty
AllPopulated(fields) == \A i \in 1..7 : fields[i] # EmptyString

\* C4: validateRequest() is true exactly for a TemporaryCredentials request
\* whose endpoint, callback URL, consumer key, nonce, signature method,
\* timestamp and version are all non-empty, in the present state and in the
\* call that requestParameters() made of it.
C4_ValidateRequest ==
    /\ validateRequest <=>
         /\ requestType = TemporaryCredentials
         /\ AllPopulated(<<oauthRequestEndpoint.str, oauthCallbackUrl.str,
                           oauthConsumerKey, oauthNonce_, oauthSignatureMethod,
                           oauthTimestamp_, oauthVersion>>)
    /\ Signed =>
         (lastSign.valid <=>
            /\ lastSign.requestType = TemporaryCredentials
            /\ AllPopulated(lastSign.fields))

\* requestParameters() on a request with every required field set
C4_Witness ==
    /\ Signed
    /\ lastSign.valid
    /\ lastSign.requestType = TemporaryCredentials
    /\ AllPopulated(lastSign.fields)

\* C5: requestParameters() logs the "not valid" warning exactly when
\* validateRequest() is false, and returns a signed list either way.
C5_WarnsExactlyWhenInvalid ==
    Signed =>
        /\ (WarnNotValid \in Range(lastSign.logged)) <=> ~lastSign.valid
        /\ SignatureEntries(requestParameters) >= 1

\* C6: initRequest(), setSignatureMethod() and setHttpMethod() log a warning
\* exactly when their argument is invalid, and an enumerated value is stored
\* without a warning.
C6_WarnsExactlyOnInvalidArgument ==
    [][/\ \A rtype \in RequestTypeInputs, ep \in EndpointInputs :
            InitRequest(rtype, ep) =>
                /\ (warnings' # <<>>) <=>
                        (~QUrlIsValid(ep) \/ rtype \notin RequestTypeValues)
                /\ (QUrlIsValid(ep) /\ rtype \in RequestTypeValues) =>
                        (requestType' = rtype /\ oauthRequestEndpoint' = ep)
       /\ \A m \in SignatureMethodInputs :
            SetSignatureMethod(m) =>
                /\ (warnings' # <<>>) <=> m \notin SignatureMethodValues
                /\ m = "PLAINTEXT" => oauthSignatureMethod' = StrPLAINTEXT
                /\ m = "HMAC_SHA1" => oauthSignatureMethod' = StrHMAC_SHA1
                /\ m = "RSA_SHA1" => oauthSignatureMethod' = StrRSA_SHA1
       /\ \A h \in HttpMethodInputs :
            SetHttpMethod(h) =>
                /\ (warnings' # <<>>) <=> h \notin HttpMethodValues
                /\ h = "GET" => oauthHttpMethod' = StrGET
                /\ h = "POST" => oauthHttpMethod' = StrPOST]_vars

\* the parameter block of a base string: what follows its second '&'
Block(baseString) ==
    LET amps == {i \in 1..Len(baseString) : baseString[i] = 38}
        second == CHOOSE i \in amps : Cardinality({j \in amps : j < i}) = 1
    IN  SubSeq(baseString, second + 1, Len(baseString))

\* C7: for a TemporaryCredentials request the parameter block lists the pairs
\* in nondecreasing (key, value) order; the same pairs collected in another
\* order give the same block; sorting the sorted list changes nothing.
C7_NormalizedOrder ==
    (Signed /\ lastSign.requestType = TemporaryCredentials) =>
        /\ Nondecreasing(lastSign.encoded)
        /\ SameBag(lastSign.encoded, lastSign.prepared)
        /\ Block(lastSign.baseString) = encodedParamaterList(lastSign.encoded)
        /\ \A other \in {Reverse(lastSign.prepared), Rotate(lastSign.prepared)} :
               encodedParamaterList(qSort(other)) = Block(lastSign.baseString)
        /\ qSort(lastSign.encoded) = lastSign.encoded

\* two pairs with the same key and different values were collected, and the
\* collection order was not the normalized one
C7_Witness ==
    /\ Signed
    /\ lastSign.requestType = TemporaryCredentials
    /\ lastSign.prepared # lastSign.encoded
    /\ \E i, j \in DOMAIN lastSign.prepared :
          /\ i < j
          /\ lastSign.prepared[i][1] = lastSign.prepared[j][1]
          /\ StrLess(lastSign.prepared[j][2], lastSign.prepared[i][2])

RawCount(c, list) ==
    Count(<<c>>, Join([i \in 1..Len(list) |-> list[i][1] \o list[i][2]], 1, Len(list)))

C10_ListGrows ==
    \A A \in {Len(QMapOf(ins)) : ins \in AdditionalInputs \cup {<<>>}} :
        (/\ history # <<>>
         /\ \A i \in DOMAIN history :
               /\ history[i].requestType = TemporaryCredentials
               /\ history[i].additional = A) =>
            /\ Len(requestParameters) = Len(history) * (6 + A + 1)
            /\ SignatureEntries(requestParameters) = Len(history)
            /\ Len(requestParamList) = Len(history) * (6 + A + 1)

\* two calls with additional parameters
C10_Witness ==
    /\ Len(history) >= 2
    /\ \A i \in DOMAIN history :
          /\ history[i].requestType = TemporaryCredentials
          /\ history[i].additional = 2
    /\ Len(requestParameters) = 18
====
